---------------------------- MODULE Spec2Model ----------------------------
(***************************************************************************)
(* State-machine model of iced-cashu (src/src/main.rs, src/src/config.rs): *)
(* the IcedCashu application state, its update handlers, the rendered      *)
(* screen, the async wallet tasks run by the iced task runner, the seed    *)
(* file and the mint/wallet store the tasks talk to.                       *)
(*                                                                         *)
(* Representation.  Option<T> is a sequence of length <= 1 (None is <<>>). *)
(* Free texts (token, bolt11, payment request) are TLA+ strings.  The two  *)
(* amount fields are sequences of one-character strings, so that parsing   *)
(* them is computed, not assumed.  A task is a record of one fixed shape;  *)
(* the fields a kind of task does not use keep their default.              *)
(***************************************************************************)
EXTENDS Integers, Sequences, FiniteSets, Bags, TLC

VARIABLES
    app,            \* the IcedCashu struct (main.rs:24-36)
    tasks,          \* bag of async tasks the runner holds (Task::perform)
    seed_file,      \* contents of <data_dir>/seed.txt (config.rs)
    store_balance,  \* spendable balance held in the wallet's sqlite store
    quotes,         \* the mint's quotes: quotes[i] is the quote with id i
    submitted,      \* number of tasks started by a widget's message so far
    panicked        \* an unwrap() inside update has aborted the process

vars == <<app, tasks, seed_file, store_balance, quotes, submitted, panicked>>

---------------------------------------------------------------------------
(* Bounds and input alphabets *)

\* most tasks the user starts in a run (New Wallet, Claim, Create Invoice,
\* Pay Invoice, Create Token, Home); the tasks update starts on a delivery
\* are not counted
MaxSubmits == 3

\* main.rs:15
DEFAULT_MINT == "https://mint.thesimplekid.dev"

\* The texts the user enters.  Every field starts empty and is emptied by
\* Home, so the empty text is around without being typed.
\* texts an on_input event of an amount field can carry
AmountInputs == {<<"1">>, <<"a">>}
\* texts pasted into the token field; "cashuA" is a well-formed, unspent token
TokenInputs == {"cashuA"}
\* texts pasted into the bolt11 field; "lnbc1" is a payable invoice
Bolt11Inputs == {"lnbc1"}
\* payment requests the mint can answer a quote with; the second is too
\* long to be encoded as a QR code
PaymentRequests == {"lnbc-quote", "lnbc-quote-too-long"}
\* mnemonics generate_mnemonic can draw, in the order they are first drawn
MnemonicSeq == <<"m1", "m2">>
Mnemonics == {MnemonicSeq[i] : i \in 1..Len(MnemonicSeq)}
\* seed.txt: no file, a file that is no mnemonic, or a mnemonic
Absent == "<absent>"
Garbage == "not a mnemonic"

None == <<>>
Some(x) == <<x>>
IsSome(o) == Len(o) = 1
Unwrap(o) == o[1]

---------------------------------------------------------------------------
(* Conversions *)

Digits == {"0", "1", "2", "3", "4", "5", "6", "7", "8", "9"}

DigitVal(c) ==
    CASE c = "0" -> 0 [] c = "1" -> 1 [] c = "2" -> 2 [] c = "3" -> 3
      [] c = "4" -> 4 [] c = "5" -> 5 [] c = "6" -> 6 [] c = "7" -> 7
      [] c = "8" -> 8 [] c = "9" -> 9

RECURSIVE DecimalVal(_)
DecimalVal(s) ==
    IF s = <<>> THEN 0
    ELSE 10 * DecimalVal(SubSeq(s, 1, Len(s) - 1)) + DigitVal(s[Len(s)])

\* str::parse::<u64>() (main.rs:224, 268): an optional '+', then one or more
\* decimal digits.  The inputs of this model are far shorter than the 20
\* digits at which the value would leave u64.
ParseU64(s) ==
    LET body == IF s # <<>> /\ s[1] = "+" THEN Tail(s) ELSE s
    IN  IF body # <<>> /\ \A i \in 1..Len(body) : body[i] \in Digits
        THEN Some(DecimalVal(body))
        ELSE None

\* str::parse::<String>() (main.rs:176, 182): the target type is inferred
\* from the String field assigned to, and String::from_str cannot fail.
ParseString(s) == Some(s)

\* Mnemonic::from_str(..).ok() (config.rs:30)
MnemonicFromStr(s) == IF s \in Mnemonics THEN Some(s) ELSE None

\* qr_code::Data::new(..).ok() (main.rs:197): fails on data too long to encode
QrData(request) == IF request = "lnbc-quote-too-long" THEN None ELSE Some(request)

---------------------------------------------------------------------------
(* Tasks *)

NewTask(kind, pc) ==
    [kind |-> kind, pc |-> pc, text |-> "", amount |-> 0, quote |-> 0,
     paid |-> FALSE, seed |-> "", url |-> ""]

NoTask == <<>>

Kinds(k) == {t \in BagToSet(tasks) : t.kind = k}
Count(k) == BagCardinality([t \in Kinds(k) |-> tasks[t]])

Replace(old, new) == (tasks (-) SetToBag({old})) (+) SetToBag({new})
Remove(old) == tasks (-) SetToBag({old})

---------------------------------------------------------------------------
(* The rendered screen: IcedCashu::view *)

\* Mutant of Widgets: the match on self.wallet is left out, so the screens
\* are rendered by the view alone.
Widgets_NoWalletMatch(s) ==
    CASE s.view = "Main"    -> {"ReceiveEcash", "Pay"}
      [] s.view = "Receive" -> {"DataChanged", "Receive", "ReceiveDataChanged",
                                "CreateInvoice", "Home"}
      [] s.view = "Pay"     -> {"PayBolt11Change", "PayInvoice", "SendDataChanged",
                                "CreateToken", "Home"}
      [] s.view = "Invoice" -> {"CopyInvoice", "Home"}
      [] s.view = "Token"   -> {"CopyToken", "Home"}

\* The messages the widgets of the rendered screen can emit (on_press,
\* on_input), for application state s.
Widgets(s) ==
    IF s.wallet = None THEN {"NewWallet"}
    ELSE CASE s.view = "Main"    -> {"ReceiveEcash", "Pay"}
           [] s.view = "Receive" -> {"DataChanged", "Receive", "ReceiveDataChanged",
                                     "CreateInvoice", "Home"}
           [] s.view = "Pay"     -> {"PayBolt11Change", "PayInvoice", "SendDataChanged",
                                     "CreateToken", "Home"}
           [] s.view = "Invoice" -> {"CopyInvoice", "Home"}
           [] s.view = "Token"   -> {"CopyToken", "Home"}

\* view() unwraps the QR code on the Invoice screen (main.rs:341-345)
RenderPanics(s) == s.wallet # None /\ s.view = "Invoice" /\ s.qr_code = None

\* the process is running: no unwrap has aborted update or view
Alive == ~panicked

---------------------------------------------------------------------------
(* IcedCashu::update, one operator per Message variant.  Each maps the     *)
(* state s (and the message's payload) to the new state, the task the     *)
(* handler returns to the runner, and whether an unwrap() aborted it.     *)

Return(s, t) == [self |-> s, task |-> t, panic |-> FALSE]
Abort(s) == [self |-> s, task |-> NoTask, panic |-> TRUE]

check_balance_task == Some(NewTask("check_balance", "run"))

OnDataChanged(s, data) == Return([s EXCEPT !.data = data], NoTask)

OnReceiveDataChanged(s, data) ==
    LET parsed == ParseString(data)
    IN  Return(IF IsSome(parsed) THEN [s EXCEPT !.receive_amount = Unwrap(parsed)] ELSE s,
               NoTask)

OnSendDataChanged(s, data) ==
    LET parsed == ParseString(data)
    IN  Return(IF IsSome(parsed) THEN [s EXCEPT !.send_amount = Unwrap(parsed)] ELSE s,
               NoTask)

OnNewWallet(s) ==
    Return([s EXCEPT !.active_mint = DEFAULT_MINT],
           Some(NewTask("new_wallet", "get_seed")))

\* Mutant of OnWalletCreated: the wallet is installed without a balance query.
OnWalletCreated_NoBalanceQuery(s, w) ==
    Return([s EXCEPT !.wallet = Some(w)], NoTask)

OnWalletCreated(s, w) ==
    Return([s EXCEPT !.wallet = Some(w)], check_balance_task)

OnMintQuote(s, request, quote_id) ==
    LET s1 == [s EXCEPT !.qr_code = QrData(request), !.invoice = request,
                        !.view = "Invoice"]
    IN  IF s.wallet = None THEN Abort(s1)
        ELSE Return(s1, Some([NewTask("mint", "status") EXCEPT
                                  !.quote = quote_id, !.url = s.active_mint]))

OnMinted(s, amount) ==
    LET s1 == [s EXCEPT !.view = "Main"]
    IN  IF s.wallet = None THEN Abort(s1) ELSE Return(s1, check_balance_task)

OnReceiveEcash(s) == Return([s EXCEPT !.view = "Receive"], NoTask)

\* data is cleared (main.rs:219) before it is read for the task (main.rs:220)
OnReceive(s) ==
    LET s1 == [s EXCEPT !.view = "Main", !.data = ""]
    IN  IF s.wallet = None THEN Abort(s)
        ELSE Return(s1, Some([NewTask("receive", "run") EXCEPT !.text = s1.data]))

\* Mutant of OnCreateInvoice: the handler itself switches to the Invoice
\* screen instead of leaving that to the quote's delivery.
OnCreateInvoice_ShowsInvoice(s) ==
    LET amount == ParseU64(s.receive_amount)
    IN  IF s.wallet = None \/ amount = None THEN Abort(s)
        ELSE Return([s EXCEPT !.view = "Invoice"],
                    Some([NewTask("mint_quote", "run") EXCEPT
                              !.amount = Unwrap(amount), !.url = s.active_mint]))

OnCreateInvoice(s) ==
    LET amount == ParseU64(s.receive_amount)
    IN  IF s.wallet = None \/ amount = None THEN Abort(s)
        ELSE Return(s, Some([NewTask("mint_quote", "run") EXCEPT
                                 !.amount = Unwrap(amount), !.url = s.active_mint]))

OnCheckBalance(s, amount) ==
    IF s.wallet = None THEN Abort(s) ELSE Return(s, check_balance_task)

OnBalance(s, amount) == Return([s EXCEPT !.balance = amount], NoTask)

\* clipboard::write builds a Task that is dropped; Task::none() is returned
OnCopyInvoice(s) == Return(s, NoTask)

OnCopyToken(s) == Return(s, NoTask)

OnPayBolt11Change(s, data) == Return([s EXCEPT !.pay_invoice = data], NoTask)

OnPayInvoice(s) ==
    LET s1 == [s EXCEPT !.view = "Main"]
    IN  IF s.wallet = None THEN Abort(s)
        ELSE Return(s1, Some([NewTask("pay_invoice", "run") EXCEPT
                                  !.text = s.pay_invoice, !.url = s.active_mint]))

OnPay(s) == Return([s EXCEPT !.view = "Pay"], NoTask)

\* Mutant of OnCreateToken: the amount is parsed from the receive-amount
\* field, as in OnCreateInvoice.
OnCreateToken_ParsesReceiveAmount(s) ==
    LET amount == ParseU64(s.receive_amount)
    IN  IF s.wallet = None \/ amount = None THEN Abort(s)
        ELSE Return(s, Some([NewTask("create_token", "run") EXCEPT
                                 !.amount = Unwrap(amount), !.url = s.active_mint]))

OnCreateToken(s) ==
    LET amount == ParseU64(s.send_amount)
    IN  IF s.wallet = None \/ amount = None THEN Abort(s)
        ELSE Return(s, Some([NewTask("create_token", "run") EXCEPT
                                 !.amount = Unwrap(amount), !.url = s.active_mint]))

OnTokenCreated(s, token) == Return([s EXCEPT !.token = token, !.view = "Token"], NoTask)

\* Mutant of OnHome: the two amount strings are not cleared.
OnHome_KeepsAmounts(s) ==
    LET s1 == [s EXCEPT !.data = "", !.pay_invoice = "", !.token = "",
                        !.qr_code = None, !.view = "Main"]
    IN  IF s.wallet = None THEN Abort(s) ELSE Return(s1, check_balance_task)

OnHome(s) ==
    LET s1 == [s EXCEPT !.data = "", !.pay_invoice = "", !.token = "",
                        !.qr_code = None, !.receive_amount = <<>>,
                        !.send_amount = <<>>, !.view = "Main"]
    IN  IF s.wallet = None THEN Abort(s) ELSE Return(s1, check_balance_task)

---------------------------------------------------------------------------
(* Initial state: IcedCashu::default() (main.rs:23), an empty task runner, *)
(* a mint without quotes, and whatever an earlier session left on disk.    *)

Default ==
    [wallet |-> None, data |-> "", pay_invoice |-> "", invoice |-> "",
     token |-> "", qr_code |-> None, view |-> "Main", balance |-> 0,
     receive_amount |-> <<>>, send_amount |-> <<>>, active_mint |-> ""]

\* balances an earlier session can have left in the store
InitBalances == {0, 1}

Init ==
    /\ app = Default
    /\ tasks = EmptyBag
    /\ seed_file \in {Absent, Garbage, "m1"}
    /\ store_balance \in IF seed_file = "m1" THEN InitBalances ELSE {0}
    /\ quotes = <<>>
    /\ submitted = 0
    /\ panicked = FALSE

---------------------------------------------------------------------------
(* The event loop: a message is handled by update, the task update         *)
(* returns is handed to the runner, and the screen is rendered again.  A   *)
(* panic in update or in view ends the process, and its tasks with it.     *)

Spawned(r) == IF r.task = NoTask THEN EmptyBag ELSE SetToBag({Unwrap(r.task)})

Dies(r) == r.panic \/ RenderPanics(r.self)

\* A message emitted by a widget of the rendered screen.
UiEvent(msg, r) ==
    /\ Alive
    /\ msg \in Widgets(app)
    /\ r.task # NoTask => submitted < MaxSubmits
    /\ app' = r.self
    /\ panicked' = Dies(r)
    /\ tasks' = IF Dies(r) THEN EmptyBag ELSE tasks (+) Spawned(r)
    /\ submitted' = IF r.task # NoTask THEN submitted + 1 ELSE submitted
    /\ UNCHANGED <<seed_file, store_balance, quotes>>

\* The message a finished task t resolves to (Task::perform's second argument).
Delivery(t, r) ==
    /\ Alive
    /\ t.pc = "done"
    /\ app' = r.self
    /\ panicked' = Dies(r)
    /\ tasks' = IF Dies(r) THEN EmptyBag ELSE Remove(t) (+) Spawned(r)
    /\ UNCHANGED submitted
    /\ UNCHANGED <<seed_file, store_balance, quotes>>

DataChanged == \E data \in TokenInputs : UiEvent("DataChanged", OnDataChanged(app, data))

ReceiveDataChanged ==
    \E data \in AmountInputs : UiEvent("ReceiveDataChanged", OnReceiveDataChanged(app, data))

SendDataChanged ==
    \E data \in AmountInputs : UiEvent("SendDataChanged", OnSendDataChanged(app, data))

PayBolt11Change ==
    \E data \in Bolt11Inputs : UiEvent("PayBolt11Change", OnPayBolt11Change(app, data))

NewWallet == UiEvent("NewWallet", OnNewWallet(app))

ReceiveEcash == UiEvent("ReceiveEcash", OnReceiveEcash(app))

Receive == UiEvent("Receive", OnReceive(app))

CreateInvoice == UiEvent("CreateInvoice", OnCreateInvoice(app))

CopyInvoice == UiEvent("CopyInvoice", OnCopyInvoice(app))

CopyToken == UiEvent("CopyToken", OnCopyToken(app))

PayInvoice == UiEvent("PayInvoice", OnPayInvoice(app))

Pay == UiEvent("Pay", OnPay(app))

CreateToken == UiEvent("CreateToken", OnCreateToken(app))

Home == UiEvent("Home", OnHome(app))

WalletCreated ==
    \E t \in Kinds("new_wallet") :
        Delivery(t, OnWalletCreated(app, [seed |-> t.seed]))

MintQuote ==
    \E t \in Kinds("mint_quote") :
        Delivery(t, OnMintQuote(app, t.text, t.quote))

Minted == \E t \in Kinds("mint") : Delivery(t, OnMinted(app, t.amount))

CheckBalance ==
    \E t \in Kinds("receive") \cup Kinds("pay_invoice") :
        Delivery(t, OnCheckBalance(app, t.amount))

Balance == \E t \in Kinds("check_balance") : Delivery(t, OnBalance(app, t.amount))

TokenCreated ==
    \E t \in Kinds("create_token") :
        Delivery(t, OnTokenCreated(app, t.text))

---------------------------------------------------------------------------
(* The async functions the runner executes (main.rs:72-166).  A step is    *)
(* the code between two await points or file-system calls; an unwrap() on  *)
(* an Err panics the task, which then never resolves to a message.         *)

Step(t, t2) ==
    /\ tasks' = Replace(t, t2)
    /\ UNCHANGED <<app, submitted, panicked>>

Panics(t) ==
    /\ tasks' = Remove(t)
    /\ UNCHANGED <<app, submitted, panicked>>

\* the face value of a well-formed token, 0 for a text that is no token
TokenValue(token) == IF token = "cashuA" THEN 1 ELSE 0
\* the amount a payable bolt11 invoice asks for, 0 for a text that is none
Bolt11Amount(bolt11) == IF bolt11 = "lnbc1" THEN 1 ELSE 0

\* config.rs:7-9.  A draw repeats a mnemonic that is already around (on
\* disk, in a task, in the wallet) or is a new one; mnemonics being
\* interchangeable, the new one is the first of MnemonicSeq not yet around.
generate_mnemonic ==
    LET around == ({seed_file} \cup {t.seed : t \in BagToSet(tasks)}
                     \cup {app.wallet[i].seed : i \in 1..Len(app.wallet)})
                  \cap Mnemonics
        unused == {i \in 1..Len(MnemonicSeq) : MnemonicSeq[i] \notin around}
    IN  around \cup {MnemonicSeq[i] : i \in {j \in unused : \A k \in unused : j <= k}}

\* config.rs:26-31
get_seed == IF seed_file = Absent THEN None ELSE MnemonicFromStr(seed_file)

\* new_wallet up to the seed being read (main.rs:73-83): the store is opened
\* and migrated, then get_seed() either yields the stored mnemonic, which
\* Wallet::new is built from (main.rs:89), or a fresh one is generated.
new_wallet_get_seed ==
    \E t \in Kinds("new_wallet") :
        /\ Alive
        /\ t.pc = "get_seed"
        /\ IF IsSome(get_seed)
           THEN Step(t, [t EXCEPT !.pc = "done", !.seed = Unwrap(get_seed)])
           ELSE \E m \in generate_mnemonic : Step(t, [t EXCEPT !.pc = "save_seed", !.seed = m])
        /\ UNCHANGED <<seed_file, store_balance, quotes>>

\* save_seed(&seed.to_string()) (main.rs:84, config.rs:18-24), then Wallet::new
new_wallet_save_seed ==
    \E t \in Kinds("new_wallet") :
        /\ Alive
        /\ t.pc = "save_seed"
        /\ seed_file' = t.seed
        /\ Step(t, [t EXCEPT !.pc = "done"])
        /\ UNCHANGED <<store_balance, quotes>>

\* main.rs:93-100: the mint answers with a payment request and a new quote id
mint_quote ==
    \E t \in Kinds("mint_quote") : \E request \in PaymentRequests :
        /\ Alive
        /\ t.pc = "run"
        /\ quotes' = Append(quotes, [amount |-> t.amount, state |-> "unpaid"])
        /\ Step(t, [t EXCEPT !.pc = "done", !.text = request, !.quote = Len(quotes) + 1])
        /\ UNCHANGED <<seed_file, store_balance>>

\* Mutant of mint_status: the loop is left after one query, paid or not.
mint_status_QueriesOnce ==
    \E t \in Kinds("mint") :
        /\ Alive
        /\ t.pc = "status"
        /\ LET paid == quotes[t.quote].state # "unpaid"
           IN  Step(t, [t EXCEPT !.paid = paid, !.pc = "mint"])
        /\ UNCHANGED <<seed_file, store_balance, quotes>>

\* One round of the loop (main.rs:105-112): paid = mint_quote_status(..).paid,
\* sleep 5 s, then the loop condition !paid sends the task round again or on.
mint_status ==
    \E t \in Kinds("mint") :
        /\ Alive
        /\ t.pc = "status"
        /\ LET paid == quotes[t.quote].state # "unpaid"
           IN  Step(t, [t EXCEPT !.paid = paid, !.pc = IF paid THEN "mint" ELSE "status"])
        /\ UNCHANGED <<seed_file, store_balance, quotes>>

\* main.rs:113-118: wallet.mint(..) redeems the paid quote into the store
mint_mint ==
    \E t \in Kinds("mint") :
        /\ Alive
        /\ t.pc = "mint"
        /\ IF quotes[t.quote].state = "paid"
           THEN /\ store_balance' = store_balance + quotes[t.quote].amount
                /\ quotes' = [quotes EXCEPT ![t.quote].state = "issued"]
                /\ Step(t, [t EXCEPT !.pc = "done", !.amount = quotes[t.quote].amount])
           ELSE /\ Panics(t)
                /\ UNCHANGED <<store_balance, quotes>>
        /\ UNCHANGED seed_file

\* main.rs:121-128
receive ==
    \E t \in Kinds("receive") :
        /\ Alive
        /\ t.pc = "run"
        /\ IF TokenValue(t.text) > 0
           THEN /\ store_balance' = store_balance + TokenValue(t.text)
                /\ Step(t, [t EXCEPT !.pc = "done", !.amount = TokenValue(t.text)])
           ELSE /\ Panics(t)
                /\ UNCHANGED store_balance
        /\ UNCHANGED <<seed_file, quotes>>

\* main.rs:130-144: wallet.send(..) fails on an amount the balance does not cover
create_token ==
    \E t \in Kinds("create_token") :
        /\ Alive
        /\ t.pc = "run"
        /\ IF t.amount <= store_balance
           THEN /\ store_balance' = store_balance - t.amount
                /\ Step(t, [t EXCEPT !.pc = "done", !.text = "cashuB"])
           ELSE /\ Panics(t)
                /\ UNCHANGED store_balance
        /\ UNCHANGED <<seed_file, quotes>>

\* main.rs:146-160: melt_quote fails on a text that is no payable invoice,
\* melt on a balance that does not cover it; melt spends the invoice's
\* amount, and the task returns 0
pay_invoice ==
    \E t \in Kinds("pay_invoice") :
        /\ Alive
        /\ t.pc = "run"
        /\ IF Bolt11Amount(t.text) > 0 /\ Bolt11Amount(t.text) <= store_balance
           THEN /\ store_balance' = store_balance - Bolt11Amount(t.text)
                /\ Step(t, [t EXCEPT !.pc = "done", !.amount = 0])
           ELSE /\ Panics(t)
                /\ UNCHANGED store_balance
        /\ UNCHANGED <<seed_file, quotes>>

\* main.rs:162-166
check_balance ==
    \E t \in Kinds("check_balance") :
        /\ Alive
        /\ t.pc = "run"
        /\ Step(t, [t EXCEPT !.pc = "done", !.amount = store_balance])
        /\ UNCHANGED <<seed_file, store_balance, quotes>>

\* Any call into the store or to the mint can return Err (disk, network),
\* which the task unwraps (main.rs:76, 97, 109, 116, 125, 141, 150, 155, 163).
TaskPanics ==
    \E t \in BagToSet(tasks) :
        /\ Alive
        /\ t.pc # "done"
        /\ Panics(t)
        /\ UNCHANGED <<seed_file, store_balance, quotes>>

\* The environment: somebody pays a quote's Lightning invoice.
QuotePaid ==
    \E q \in 1..Len(quotes) :
        /\ quotes[q].state = "unpaid"
        /\ quotes' = [quotes EXCEPT ![q].state = "paid"]
        /\ UNCHANGED <<app, tasks, seed_file, store_balance, submitted, panicked>>

---------------------------------------------------------------------------

Next ==
    \/ DataChanged \/ ReceiveDataChanged \/ SendDataChanged \/ PayBolt11Change
    \/ NewWallet \/ ReceiveEcash \/ Receive \/ CreateInvoice \/ CopyInvoice
    \/ CopyToken \/ PayInvoice \/ Pay \/ CreateToken \/ Home
    \/ WalletCreated \/ MintQuote \/ Minted \/ CheckBalance \/ Balance
    \/ TokenCreated
    \/ new_wallet_get_seed \/ new_wallet_save_seed \/ mint_quote \/ mint_status
    \/ mint_mint \/ receive \/ create_token
    \/ pay_invoice \/ check_balance
    \/ TaskPanics \/ QuotePaid

Spec == Init /\ [][Next]_vars

\* The program with every call into the store and to the mint returning Ok
\* unless its arguments make it fail: Next without TaskPanics.
NextOk ==
    \/ DataChanged \/ ReceiveDataChanged \/ SendDataChanged \/ PayBolt11Change
    \/ NewWallet \/ ReceiveEcash \/ Receive \/ CreateInvoice \/ CopyInvoice
    \/ CopyToken \/ PayInvoice \/ Pay \/ CreateToken \/ Home
    \/ WalletCreated \/ MintQuote \/ Minted \/ CheckBalance \/ Balance
    \/ TokenCreated
    \/ new_wallet_get_seed \/ new_wallet_save_seed \/ mint_quote \/ mint_status
    \/ mint_mint \/ receive \/ create_token
    \/ pay_invoice \/ check_balance
    \/ QuotePaid

SpecOk == Init /\ [][NextOk]_vars

\* The executor polls every future it was handed until it resolves, and the
\* runtime hands every resolved message to update (Task::perform): weak
\* fairness of every task step and every delivery.  Neither the user nor
\* the payer of an invoice is fair.
TaskFairness ==
    /\ WF_vars(new_wallet_get_seed) /\ WF_vars(new_wallet_save_seed)
    /\ WF_vars(mint_quote) /\ WF_vars(mint_status) /\ WF_vars(mint_mint)
    /\ WF_vars(receive) /\ WF_vars(create_token) /\ WF_vars(pay_invoice)
    /\ WF_vars(check_balance)
    /\ WF_vars(WalletCreated) /\ WF_vars(MintQuote) /\ WF_vars(Minted)
    /\ WF_vars(CheckBalance) /\ WF_vars(Balance) /\ WF_vars(TokenCreated)

FairSpec == SpecOk /\ TaskFairness

\* Start-up (spec scenario A): the user presses New Wallet and nothing else,
\* and no call into the store returns Err.  The executor polls every future
\* it was handed until it resolves, and the runtime hands every resolved
\* message to update (Task::perform, main.rs:189, 194), hence the weak
\* fairness of the task steps and of the deliveries; the user's pressing the
\* button is not fair.
NextStartup ==
    \/ NewWallet
    \/ new_wallet_get_seed \/ new_wallet_save_seed \/ WalletCreated
    \/ check_balance \/ Balance

FairStartup ==
    /\ Init
    /\ [][NextStartup]_vars
    /\ WF_vars(new_wallet_get_seed) /\ WF_vars(new_wallet_save_seed)
    /\ WF_vars(WalletCreated) /\ WF_vars(check_balance) /\ WF_vars(Balance)

---------------------------------------------------------------------------
(* Claims *)

Added(t) == CopiesIn(t, tasks') = CopiesIn(t, tasks) + 1

\* C1: when Claim is submitted on the Receive screen, the receive task is
\* dispatched with exactly the text the pasted-token field held when Claim
\* was pressed, and the view becomes Main.
C1_ClaimReceivesPastedToken ==
    [][Receive =>
          /\ app'.view = "Main"
          /\ Added([NewTask("receive", "run") EXCEPT !.text = app.data])]_vars

\* C2: for both amount fields, an input event whose text parses as a
\* non-negative integer replaces the field's value, and one whose text does
\* not parse leaves the field as it was.
C2_AmountInputValidated ==
    [][\A data \in AmountInputs :
          /\ UiEvent("ReceiveDataChanged", OnReceiveDataChanged(app, data)) =>
                app'.receive_amount =
                    IF IsSome(ParseU64(data)) THEN data ELSE app.receive_amount
          /\ UiEvent("SendDataChanged", OnSendDataChanged(app, data)) =>
                app'.send_amount =
                    IF IsSome(ParseU64(data)) THEN data ELSE app.send_amount]_vars

\* C3: a mint task is at or past its final mint call only if its latest
\* quote-status query returned paid = true (and the mint indeed holds the
\* quote paid), and a task whose latest query returned paid = false is back
\* at the query: no mint call follows an unpaid answer.
C3_MintOnlyAfterPaid ==
    \A t \in Kinds("mint") :
        /\ t.pc \in {"mint", "done"} => t.paid /\ quotes[t.quote].state # "unpaid"
        /\ ~t.paid => t.pc = "status"

\* C3 witness: a mint task has made its mint call and holds the minted amount
C3_Witness == \E t \in Kinds("mint") : t.pc = "done" /\ t.paid /\ t.amount > 0

\* C4: while no wallet handle exists the view does not change (New Wallet is
\* the only transition), and from Main the view changes only to Receive or
\* to Pay, never directly to Invoice or Token.
C4_MainLeadsToReceiveOrPay ==
    [][/\ app.wallet = None => app'.view = app.view
       /\ app.view = "Main" /\ app'.view # "Main" => app'.view \in {"Receive", "Pay"}]_vars

\* C5: the view becomes Invoice only on delivery of a mint_quote result and
\* Token only on delivery of a create_token result; a mint_quote task is
\* started only by Create Invoice and a create_token task only by Create
\* Token; no widget message sets the view to Invoice or Token.
C5_InvoiceTokenOnlyByDelivery ==
    [][/\ app'.view = "Invoice" /\ app.view # "Invoice" => MintQuote
       /\ app'.view = "Token" /\ app.view # "Token" => TokenCreated
       /\ Count("mint_quote")' > Count("mint_quote") => CreateInvoice
       /\ Count("create_token")' > Count("create_token") => CreateToken]_vars

\* C5 witness: the Invoice screen is shown and the quote's mint task runs
C5_Witness == app.view = "Invoice" /\ ~panicked /\ Kinds("mint") # {}

\* C6: handling Home with a wallet yields view Main with the pasted token,
\* pasted invoice, token string, QR code and both amount strings empty and
\* dispatches a balance query; handling Home again changes nothing more.
C6_HomeClearsAndIsIdempotent ==
    [][Home =>
          /\ app'.view = "Main"
          /\ app'.data = "" /\ app'.pay_invoice = "" /\ app'.token = ""
          /\ app'.qr_code = None
          /\ app'.receive_amount = <<>> /\ app'.send_amount = <<>>
          /\ Added(NewTask("check_balance", "run"))
          /\ OnHome(app').self = app'
          /\ OnHome(app').task = OnHome(app).task]_vars

\* C6 witness: Home was pressed on the Invoice screen (only Home empties the
\* QR code of an invoice that was shown)
C6_Witness ==
    /\ app.wallet # None /\ app.view = "Main"
    /\ app.invoice # "" /\ app.qr_code = None
    /\ Kinds("check_balance") # {}

\* C7: whenever the view is Main, the pasted token, pasted invoice, token
\* string, QR code and both amount strings are empty.
C7_MainHasNoTransientInput ==
    app.view = "Main" =>
        /\ app.data = "" /\ app.pay_invoice = "" /\ app.token = ""
        /\ app.qr_code = None
        /\ app.receive_amount = <<>> /\ app.send_amount = <<>>

\* C8: the view is Receive, Pay, Invoice or Token only if a wallet handle
\* exists, and without a wallet handle the rendered screen offers New Wallet
\* and nothing else.
C8_ScreensNeedWallet ==
    /\ app.view \in {"Receive", "Pay", "Invoice", "Token"} => app.wallet # None
    /\ app.wallet = None => Widgets(app) = {"NewWallet"}

\* C8 witness: a screen other than Main is shown, with a wallet
C8_Witness == app.view \in {"Receive", "Pay", "Invoice", "Token"} /\ app.wallet # None

\* C9: two new_wallet tasks are never outstanding at the same time, and an
\* installed wallet handle is never replaced.
C9_WalletConstructedOnce ==
    [][/\ Count("new_wallet")' <= 1
       /\ app.wallet # None => app'.wallet = app.wallet]_vars

\* C10: while seed.txt holds a text that is no mnemonic, the file is not
\* written and no new_wallet task completes with a wallet.
C10_CorruptSeedIsFatal ==
    [][seed_file = Garbage =>
          /\ seed_file' = Garbage
          /\ \A t \in BagToSet(tasks') : t.kind = "new_wallet" => t.pc # "done"]_vars

\* C11: once seed.txt holds a mnemonic, no step changes the file.
C11_SeedAppendOnce ==
    [][(seed_file \in Mnemonics) => (seed_file' = seed_file)]_vars

\* C12: the delivery of the result of mint, receive, pay_invoice and
\* create_token dispatches a balance query, and the delivery of a balance
\* query's result makes that result the displayed balance.
C12_BalanceQueryAfterEveryOperation ==
    [][/\ Minted \/ CheckBalance \/ TokenCreated => Added(NewTask("check_balance", "run"))
       /\ Balance => \E t \in Kinds("check_balance") :
                        (t.pc = "done" /\ app'.balance = t.amount)]_vars

C15_InvoiceHasQrCode ==
    /\ app.view = "Invoice" => IsSome(app.qr_code)
    /\ ~RenderPanics(app)

\* C16: wherever Copy Invoice (Copy Token) can be pressed, its handler returns
\* a clipboard-write task carrying the current invoice (token) string and
\* leaves the application state as it is.
C16_CopyWritesClipboard ==
    /\ Alive /\ "CopyInvoice" \in Widgets(app) =>
          OnCopyInvoice(app) =
              Return(app, Some([NewTask("clipboard_write", "run") EXCEPT
                                    !.text = app.invoice]))
    /\ Alive /\ "CopyToken" \in Widgets(app) =>
          OnCopyToken(app) =
              Return(app, Some([NewTask("clipboard_write", "run") EXCEPT
                                    !.text = app.token]))

\* the awaitAndMint task of quote q is outstanding
Minting(q) == \E t \in Kinds("mint") : t.quote = q

\* the state of quote q at the mint
QuoteState(q) == IF q <= Len(quotes) THEN quotes[q].state ELSE "none"

\* C17: the delivery of a mint_quote result stores the payment request,
\* derives the QR code, sets the view to Invoice and starts one mint task for
\* the quote; once the quote is paid, under fair scheduling, the task's
\* Minted result is delivered (the quote is issued, the task is gone and the
\* running program shows Main); the delivery of Minted sets the view to Main
\* and dispatches a balance query on whatever screen it arrives.
C17_QuoteIsMinted ==
    /\ [][/\ MintQuote =>
                \E t \in Kinds("mint_quote") :
                    /\ t.pc = "done" /\ ~Added(t)
                    /\ app'.invoice = t.text
                    /\ app'.qr_code = QrData(t.text)
                    /\ app'.view = "Invoice"
                    /\ Added([NewTask("mint", "status") EXCEPT
                                  !.quote = t.quote, !.url = DEFAULT_MINT])
          /\ Minted =>
                /\ app'.view = "Main"
                /\ Added(NewTask("check_balance", "run"))]_vars
    /\ \A q \in 1..MaxSubmits :
          (QuoteState(q) = "paid" /\ Minting(q)) ~>
              (Alive /\ app.view = "Main" /\ QuoteState(q) = "issued" /\ ~Minting(q))

\* C18: wherever Create Invoice (Create Token) can be pressed, the
\* receive-amount (send-amount) field parses as a u64 and the handler does
\* not abort.
C18_AmountAlwaysParses ==
    /\ Alive /\ "CreateInvoice" \in Widgets(app) =>
          IsSome(ParseU64(app.receive_amount)) /\ ~OnCreateInvoice(app).panic
    /\ Alive /\ "CreateToken" \in Widgets(app) =>
          IsSome(ParseU64(app.send_amount)) /\ ~OnCreateToken(app).panic

\* C19: when no task is outstanding and no result is undelivered, the
\* displayed balance is the balance the store holds.
C19_QuiescentBalanceIsActual ==
    Alive /\ IsSome(app.wallet) /\ tasks = EmptyBag => app.balance = store_balance

\* C20: the installed wallet was derived from the mnemonic seed.txt holds.
C20_WalletSeedIsPersistedSeed ==
    IsSome(app.wallet) => Unwrap(app.wallet).seed = seed_file

===========================================================================
